---------------------------- MODULE Spec2Model ----------------------------
(***************************************************************************)
(* Conway's Game of Life, amiltonjr/GameOfLife.                            *)
(*                                                                         *)
(* The distributed variant (src/MPI/game_mpi.c) is modelled as nprocs      *)
(* sequential processes that share nothing and talk through per-pair FIFO  *)
(* message queues (MPI's non-overtaking order, matching by source and      *)
(* tag).  Each process walks through main: random_board, the Allreduce on  *)
(* its return value, build_array of the second buffer, steps times         *)
(* update_board followed by the pointer swap, optionally print_board, and  *)
(* MPI_Finalize.  The single-threaded variant (src/game.c) is modelled by  *)
(* its main: the argument check, the random fill, and generations times    *)
(* process_generation on a toroidal matrix followed by the swap.           *)
(***************************************************************************)
EXTENDS Integers, Sequences, FiniteSets, TLC

\* ------------------------------------------------------------------ bounds
MaxSize == 5       \* board sizes 1..MaxSize
MaxProcs == 4      \* process counts 1..MaxProcs (and never above the size)
MaxSteps == 2      \* generation counts 0..MaxSteps
NumSeeds == 2      \* random streams 0..NumSeeds-1
PatchSize == 3     \* side of the grid the single-step specification enumerates
MaxArg == 2        \* numeric arguments -1..MaxArg in the argument specification
MaxGlider == 6     \* board sizes 5..MaxGlider in the glider specification
MaxThreads == 4    \* thread counts 1..MaxThreads asked of the OpenMP program

\* ------------------------------------------------------- program constants
ALIVE == 1
DEAD == 0
EXCHANGE_TAG == 2
PRINT_TAG == 3
ALIVE_CHAR == "▉"
DEAD_CHAR == " "

VARIABLES
    argc,        \* main: argc, the program name and its arguments
    size,        \* main: size = atoi(argv[1])
    nprocs,      \* global nprocs (MPI_Comm_size)
    steps,       \* main: steps = atoi(argv[2])
    rnd,         \* rnd[i][j]: the cell state drawn from rand() for cell (i, j)
    eager,       \* TRUE: the MPI library buffers standard-mode sends;
                 \* FALSE: a send completes only once its receive is posted
    printing,    \* TRUE: print_board is called after the last generation
    junk,        \* what malloc'ed memory holds before it is written
    pc,          \* pc[w]: where process w is in main
    step,        \* step[w]: main's loop counter
    ret,         \* ret[w]: return_val of random_board
    board,       \* board[w]: the array main's pointer board refers to
    new_board,   \* new_board[w]: the array main's pointer new_board refers to
    chan,        \* chan[<<src, dst>>]: messages sent and not yet received
    prow,        \* prow[w]: print_board's loop counter i
    out,         \* the lines process 0 has written to outfile
    aborted,     \* why the job is being killed: "no" (it is not), "board" or
                 \* "new_board" or "temprow" (MPI_Abort after that malloc
                 \* failed), "died" (a process was killed by a signal)
    spc,         \* game.c: where main is ("idle": the program is not run)
    gen,         \* game.c, game_omp.c: main's loop counter i
    matrix,      \* game.c, game_omp.c: matrix
    next_gen,    \* game.c, game_omp.c: next_gen
    alives,      \* game.c, game_omp.c: the count main prints (-1: nothing yet)
    opc,         \* game_omp.c: where main is ("idle": the program is not run)
    thread_count,      \* game_omp.c: main's thread_count
    alert_extra_work,  \* game_omp.c: the global alert_extra_work
    tpc,         \* game_omp.c: tpc[t]: where thread t of the team is
    trows        \* game_omp.c: trows[t]: start and end of thread t's loop

\* The state of the shared-memory programs.
ompVars == <<opc, thread_count, alert_extra_work, tpc, trows>>

shmVars == <<spc, gen, matrix, next_gen, alives, ompVars>>

\* What the run is given and never changes.
inVars == <<argc, size, nprocs, steps, rnd, eager, printing, junk>>

vars == <<inVars, pc, step, ret, board, new_board, chan, prow, out, aborted,
          shmVars>>

Procs == 0 .. (nprocs - 1)

Min(a, b) == IF a < b THEN a ELSE b

\* --------------------------------------------------------- partition planner
rows_per_process(sz) == (sz + (nprocs - 1)) \div nprocs

local_rows(proc_id, sz) ==
    IF proc_id = nprocs - 1
    THEN sz - ((nprocs - 1) * rows_per_process(sz))
    ELSE rows_per_process(sz)

local_start_row(proc_id, sz) == proc_id * rows_per_process(sz) + 1

local_end_row(proc_id, sz) ==
    IF proc_id = nprocs - 1
    THEN sz + 1
    ELSE local_start_row(proc_id, sz) + rows_per_process(sz)

process_owning_row_off(row, sz) == row \div rows_per_process(sz)

process_owning_row(row, sz) == (row - 1) \div rows_per_process(sz)

\* ------------------------------------------------------------- grid storage
\* build_array: rows x cols cells, each holding whatever malloc returned.
build_array(rows, cols) == [r \in 0 .. rows - 1 |-> [c \in 0 .. cols - 1 |-> junk]]

clear_border(b, rows, cols) ==
    [r \in 0 .. rows - 1 |->
        [c \in 0 .. cols - 1 |->
            IF r = 0 \/ r = rows - 1 \/ c = 0 \/ c = cols - 1 THEN 0 ELSE b[r][c]]]

\* The C library's stream after srand(s): a linear congruential generator
\* with RAND_MAX = 65536; Rand(s, n) is the n-th value rand() returns.
RAND_MAX == 65536

RECURSIVE Rand(_, _)
Rand(s, n) == IF n = 0 THEN s ELSE (Rand(s, n - 1) * 75 + 74) % 65537

\* random_board's temp for cell (i, j), the ((i-1)*size + j)-th draw of the
\* stream (line 284).
RandomCell(sz, s, i, j) ==
    IF Rand(s, (i - 1) * sz + j) < RAND_MAX \div 2 THEN 0 ELSE 1

\* The draws of the stream srand(s) starts, cell by cell.
StreamGrid(sz, s) == [i \in 1 .. sz |-> [j \in 1 .. sz |-> RandomCell(sz, s, i, j)]]

\* random_board on process w when build_array succeeded.
random_board(w, sz) ==
    LET rows == local_rows(w, sz) + 2
        cols == sz + 2
        start_row == local_start_row(w, sz)
        end_row == local_end_row(w, sz)
        raw == build_array(rows, cols)
        filled == [r \in 0 .. rows - 1 |->
                     [c \in 0 .. cols - 1 |->
                        LET i == r + start_row - 1
                        IN  IF /\ 1 <= i /\ i <= sz /\ 1 <= c /\ c <= sz
                               /\ start_row <= i /\ i < end_row
                            THEN rnd[i][c]
                            ELSE raw[r][c]]]
    IN  clear_border(filled, rows, cols)


\* ----------------------------------------------------------- local step engine
\* The rule update_board applies to one cell (lines 370-383).
NextCellNoBirth(cell, nbrs) ==
    IF cell = 1
    THEN (IF nbrs = 2 \/ nbrs = 3 THEN ALIVE ELSE DEAD)
    ELSE DEAD

NextCell(cell, nbrs) ==
    IF cell = 1
    THEN (IF nbrs = 2 \/ nbrs = 3 THEN ALIVE ELSE DEAD)
    ELSE (IF nbrs = 3 THEN ALIVE ELSE DEAD)

\* nbrs of update_board (lines 360-368): the eight cells around (i, j).
Nbrs(b, i, j) ==
    b[i-1][j-1] + b[i-1][j] + b[i-1][j+1] +
    b[i][j-1]               + b[i][j+1]   +
    b[i+1][j-1] + b[i+1][j] + b[i+1][j+1]

UpdateLoopReadsDest(b, nb, rows, cols) ==
    [r \in 0 .. rows - 1 |->
        [c \in 0 .. cols - 1 |->
            IF 1 <= r /\ r <= rows - 2 /\ 1 <= c /\ c <= cols - 2
            THEN NextCell(nb[r][c], Nbrs(b, r, c))
            ELSE nb[r][c]]]

\* The update loop of update_board (lines 355-385): what new_board holds
\* after it, given board b and new_board nb of rows x cols cells.
UpdateLoop(b, nb, rows, cols) ==
    [r \in 0 .. rows - 1 |->
        [c \in 0 .. cols - 1 |->
            IF 1 <= r /\ r <= rows - 2 /\ 1 <= c /\ c <= cols - 2
            THEN NextCell(b[r][c], Nbrs(b, r, c))
            ELSE nb[r][c]]]

\* ------------------------------------------------------------ message passing
Msg(tag, data) == [tag |-> tag, data |-> data]

\* The payload MPI reads from &(b[r][1]): size cells of row r.
RowData(b, r) == [j \in 1 .. size |-> b[r][j]]

\* What arrives when the send buffer is read through a pointer that was
\* never set (elems[r] with r outside the allocated rows).
WildData == [j \in 1 .. size |-> junk]

\* The position in queue q of the first message carrying tag (0: none).
FirstTagged(q, tag) ==
    IF \E k \in 1 .. Len(q) : q[k].tag = tag
    THEN CHOOSE k \in 1 .. Len(q) :
            /\ q[k].tag = tag
            /\ \A m \in 1 .. (k - 1) : q[m].tag # tag
    ELSE 0

\* MPI matches the oldest message from that source with that tag.
MatchNewest(q, tag) == Len(q)

Match(q, tag) == FirstTagged(q, tag)

Remove(q, k) == [m \in 1 .. (Len(q) - 1) |-> IF m < k THEN q[m] ELSE q[m + 1]]

\* The row of b with cells 1..size overwritten by the received payload.
Store(b, r, data) ==
    [b EXCEPT ![r] = [c \in DOMAIN b[r] |->
                        IF 1 <= c /\ c <= size THEN data[c] ELSE b[r][c]]]

\* The launcher acts on the first abort or death it sees.
FirstCause(c) == IF aborted = "no" THEN c ELSE aborted

Terminal == {"done", "failed", "aborted", "crashed"}
InExchange == {"wait_ra", "wait_rb", "wait_sa", "wait_sb", "update"}

\* How many times process v has run the four posts of update_board.
Posted(v) == step[v] + (IF pc[v] \in InExchange THEN 1 ELSE 0)

\* Where main goes after update_board's requests are posted, and after each
\* wait: the waits of lines 331-353 a process skips are skipped here.
WaitsOf(w) ==
    (IF w # 0 THEN <<"wait_ra">> ELSE << >>) \o
    (IF w # nprocs - 1 THEN <<"wait_rb">> ELSE << >>) \o
    (IF w # 0 THEN <<"wait_sa">> ELSE << >>) \o
    (IF w # nprocs - 1 THEN <<"wait_sb">> ELSE << >>) \o
    <<"update">>

FirstWaitSkip(w) == "update"

FirstWait(w) == WaitsOf(w)[1]

AfterWaitSkip(w, p) == "update"

AfterWait(w, p) ==
    LET ws == WaitsOf(w)
        k == CHOOSE n \in 1 .. Len(ws) : ws[n] = p
    IN  ws[k + 1]

\* main's loop test (line 136) and what follows the loop.
LoopOrLeave(st) ==
    IF st < steps THEN "post"
    ELSE IF printing THEN "print" ELSE "finalize"

\* --------------------------------------------------------------- main (MPI)
\* What uninitialised memory may hold: dead, alive, or neither.
Garbage == {0, 1, 5}

Init ==
    /\ argc = 3
    /\ size \in 1 .. MaxSize
    /\ nprocs \in 1 .. Min(size, MaxProcs)
    /\ steps \in 0 .. MaxSteps
    /\ \E s \in 0 .. (NumSeeds - 1) : rnd = StreamGrid(size, s)
    /\ eager \in BOOLEAN
    /\ printing \in BOOLEAN
    /\ junk \in Garbage
    /\ pc = [w \in Procs |-> "start"]
    /\ step = [w \in Procs |-> 0]
    /\ ret = [w \in Procs |-> -1]
    /\ board = [w \in Procs |-> << >>]
    /\ new_board = [w \in Procs |-> << >>]
    /\ chan = [p \in Procs \X Procs |-> << >>]
    /\ prow = [w \in Procs |-> 1]
    /\ out = << >>
    /\ aborted = "no"
    /\ spc = "idle"
    /\ gen = 0
    /\ matrix = << >>
    /\ next_gen = << >>
    /\ alives = -1
    /\ opc = "idle"
    /\ thread_count = 0
    /\ alert_extra_work = 0
    /\ tpc = << >>
    /\ trows = << >>

\* The argument processing of lines 93-107: too few arguments end the run
\* through MPI_Finalize and exit(EXIT_FAILURE); size and steps are taken as
\* atoi gives them.
ParseArgs(w) ==
    /\ pc[w] = "args"
    /\ pc' = [pc EXCEPT ![w] = IF argc < 3 THEN "fin_fail" ELSE "start"]
    /\ UNCHANGED <<inVars, step, ret, board, new_board, chan, prow, out, aborted,
                   shmVars>>

\* random_board (line 109).  build_array fails when malloc does, and always
\* for a negative row count; with zero rows a malloc(0) that succeeds lets
\* clear_border write through elems[0], which was never set.
RandomBoard(w) ==
    /\ pc[w] = "start"
    /\ LET rows == local_rows(w, size) + 2
       IN  \/ /\ rows >= 1
              /\ board' = [board EXCEPT ![w] = random_board(w, size)]
              /\ ret' = [ret EXCEPT ![w] = 0]
              /\ pc' = [pc EXCEPT ![w] = "allreduce"]
              /\ UNCHANGED aborted
           \/ /\ ret' = [ret EXCEPT ![w] = 2]
              /\ pc' = [pc EXCEPT ![w] = "allreduce"]
              /\ UNCHANGED <<board, aborted>>
           \/ /\ rows = 0
              /\ pc' = [pc EXCEPT ![w] = "crashed"]
              /\ aborted' = FirstCause("died")
              /\ UNCHANGED <<board, ret>>
    /\ UNCHANGED <<inVars, step,
                   new_board, chan, prow, out, shmVars>>

MaxRet == CHOOSE m \in {ret[v] : v \in Procs} : \A v \in Procs : ret[v] <= m

AllreduceOwn(w) ==
    /\ pc[w] = "allreduce"
    /\ \A v \in Procs : ret[v] # -1
    /\ pc' = [pc EXCEPT ![w] = IF ret[w] # 0 THEN "fin_fail" ELSE "build_new"]
    /\ UNCHANGED <<inVars, step, ret,
                   board, new_board, chan, prow, out, aborted, shmVars>>

\* MPI_Allreduce(MPI_MAX) returns once every process has contributed
\* (lines 110-116).
Allreduce(w) ==
    /\ pc[w] = "allreduce"
    /\ \A v \in Procs : ret[v] # -1
    /\ pc' = [pc EXCEPT ![w] = IF MaxRet # 0 THEN "fin_fail" ELSE "build_new"]
    /\ UNCHANGED <<inVars, step, ret,
                   board, new_board, chan, prow, out, aborted, shmVars>>

\* build_array(new_board, ...) and clear_border (lines 123-130); MPI_Abort
\* when the allocation fails.
BuildNew(w) ==
    /\ pc[w] = "build_new"
    /\ LET rows == local_rows(w, size) + 2
           cols == size + 2
       IN  \/ /\ new_board' = [new_board EXCEPT ![w] =
                                 clear_border(build_array(rows, cols), rows, cols)]
              /\ pc' = [pc EXCEPT ![w] = LoopOrLeave(step[w])]
              /\ UNCHANGED aborted
           \/ /\ pc' = [pc EXCEPT ![w] = "aborted"]
              /\ aborted' = FirstCause("new_board")
              /\ UNCHANGED new_board
    /\ UNCHANGED <<inVars, step, ret,
                   board, chan, prow, out, shmVars>>

\* update_board, lines 305-328: the two MPI_Irecv and the two MPI_Isend.
\* A process given -1 local rows holds a one-row array, and its send reads
\* elems[1] beyond it: the process dies, or a wild payload is sent.  A
\* process that is alone posts nothing.
PostSends(w, top, bottom) ==
    [p \in Procs \X Procs |->
        IF w # 0 /\ p = <<w, w - 1>>
        THEN Append(chan[p], Msg(EXCHANGE_TAG, top))
        ELSE IF w # nprocs - 1 /\ p = <<w, w + 1>>
        THEN Append(chan[p], Msg(EXCHANGE_TAG, bottom))
        ELSE chan[p]]

Post(w) ==
    /\ pc[w] = "post"
    /\ LET lr == local_rows(w, size)
       IN  \/ /\ lr >= 0 \/ nprocs = 1
              /\ chan' = PostSends(w, RowData(board[w], 1), RowData(board[w], lr))
              /\ pc' = [pc EXCEPT ![w] = FirstWait(w)]
              /\ UNCHANGED aborted
           \/ /\ lr < 0 /\ nprocs > 1
              /\ chan' = PostSends(w, WildData, WildData)
              /\ pc' = [pc EXCEPT ![w] = FirstWait(w)]
              /\ UNCHANGED aborted
           \/ /\ lr < 0 /\ nprocs > 1
              /\ pc' = [pc EXCEPT ![w] = "crashed"]
              /\ aborted' = FirstCause("died")
              /\ UNCHANGED chan
    /\ UNCHANGED <<inVars, step, ret,
                   board, new_board, prow, out, shmVars>>

\* MPI_Wait(&req_recv_above) (line 334): the oldest exchange message from
\* the process above lands in row 0.
WaitRecvAbove(w) ==
    /\ pc[w] = "wait_ra"
    /\ LET q == chan[<<w - 1, w>>]
           k == Match(q, EXCHANGE_TAG)
       IN  /\ k # 0
           /\ board' = [board EXCEPT ![w] = Store(board[w], 0, q[k].data)]
           /\ chan' = [chan EXCEPT ![<<w - 1, w>>] = Remove(q, k)]
    /\ pc' = [pc EXCEPT ![w] = AfterWait(w, "wait_ra")]
    /\ UNCHANGED <<inVars, step, ret,
                   new_board, prow, out, aborted, shmVars>>

\* MPI_Wait(&req_recv_below) (line 340): into row local_rows + 1.
WaitRecvBelow(w) ==
    /\ pc[w] = "wait_rb"
    /\ LET q == chan[<<w + 1, w>>]
           k == Match(q, EXCHANGE_TAG)
       IN  /\ k # 0
           /\ board' = [board EXCEPT ![w] =
                          Store(board[w], local_rows(w, size) + 1, q[k].data)]
           /\ chan' = [chan EXCEPT ![<<w + 1, w>>] = Remove(q, k)]
    /\ pc' = [pc EXCEPT ![w] = AfterWait(w, "wait_rb")]
    /\ UNCHANGED <<inVars, step, ret,
                   new_board, prow, out, aborted, shmVars>>

\* A standard-mode send is complete once buffered (eager) or once the
\* receiver has posted the receive that matches it.
SendComplete(w, v) == eager \/ Posted(v) >= step[w] + 1

\* MPI_Wait(&req_send_above) (line 346).
WaitSendAbove(w) ==
    /\ pc[w] = "wait_sa"
    /\ SendComplete(w, w - 1)
    /\ pc' = [pc EXCEPT ![w] = AfterWait(w, "wait_sa")]
    /\ UNCHANGED <<inVars, step, ret,
                   board, new_board, chan, prow, out, aborted, shmVars>>

\* MPI_Wait(&req_send_below) (line 352).
WaitSendBelow(w) ==
    /\ pc[w] = "wait_sb"
    /\ SendComplete(w, w + 1)
    /\ pc' = [pc EXCEPT ![w] = AfterWait(w, "wait_sb")]
    /\ UNCHANGED <<inVars, step, ret,
                   board, new_board, chan, prow, out, aborted, shmVars>>

\* The update loop (lines 355-385) and main's pointer swap (lines 141-143).
Update(w) ==
    /\ pc[w] = "update"
    /\ LET rows == local_rows(w, size) + 2
           cols == size + 2
       IN  /\ board' = [board EXCEPT ![w] =
                          UpdateLoop(board[w], new_board[w], rows, cols)]
           /\ new_board' = [new_board EXCEPT ![w] = board[w]]
    /\ step' = [step EXCEPT ![w] = step[w] + 1]
    /\ pc' = [pc EXCEPT ![w] = LoopOrLeave(step[w] + 1)]
    /\ UNCHANGED <<inVars, ret,
                   chan, prow, out, aborted, shmVars>>

\* ------------------------------------------------------------- gather/report
\* What print_board writes for one row: DEAD_CHAR for 0, ALIVE_CHAR otherwise
\* (lines 416-426).
Render(data) == [j \in 1 .. size |-> IF data[j] = 0 THEN DEAD_CHAR ELSE ALIVE_CHAR]

\* print_board on process 0, one turn of the loop of lines 409-429.
PrintRow(w) ==
    /\ w = 0
    /\ pc[w] = "print"
    /\ LET i == prow[w]
           process_for_row == process_owning_row(i, size)
           q == chan[<<process_for_row, 0>>]
           k == Match(q, PRINT_TAG)
       IN  \/ /\ i <= size
              /\ process_for_row = 0
              /\ out' = Append(out, Render(RowData(board[w], i)))
              /\ prow' = [prow EXCEPT ![w] = i + 1]
              /\ UNCHANGED <<chan, pc>>
           \/ /\ i <= size
              /\ process_for_row # 0
              /\ k # 0
              /\ out' = Append(out, Render(q[k].data))
              /\ chan' = [chan EXCEPT ![<<process_for_row, 0>>] = Remove(q, k)]
              /\ prow' = [prow EXCEPT ![w] = i + 1]
              /\ UNCHANGED pc
           \/ /\ i > size
              /\ pc' = [pc EXCEPT ![w] = "finalize"]
              /\ UNCHANGED <<chan, out, prow>>
    /\ UNCHANGED <<inVars, step, ret,
                   board, new_board, aborted, shmVars>>

\* print_board on process 0 when malloc of temprow fails (lines 400-407).
PrintAbort(w) ==
    /\ w = 0
    /\ pc[w] = "print"
    /\ prow[w] = 1
    /\ pc' = [pc EXCEPT ![w] = "aborted"]
    /\ aborted' = FirstCause("temprow")
    /\ UNCHANGED <<inVars, step, ret,
                   board, new_board, chan, prow, out, shmVars>>

GatherRowAbove(w, i) == RowData(board[w], i - 1)

\* The buffer of the MPI_Send of line 437: &(board->elems[i][1]).
GatherRow(w, i) == RowData(board[w], i)

\* print_board on the other processes (lines 434-438): MPI_Send of row i.
PrintSend(w) ==
    /\ w # 0
    /\ pc[w] = "print"
    /\ LET i == prow[w]
       IN  \/ /\ i <= local_rows(w, size)
              /\ chan' = [chan EXCEPT ![<<w, 0>>] =
                            Append(@, Msg(PRINT_TAG, GatherRow(w, i)))]
              /\ pc' = [pc EXCEPT ![w] = "print_wait"]
           \/ /\ i > local_rows(w, size)
              /\ pc' = [pc EXCEPT ![w] = "finalize"]
              /\ UNCHANGED chan
    /\ UNCHANGED <<inVars, step, ret,
                   board, new_board, prow, out, aborted, shmVars>>

\* The blocking MPI_Send returns: buffered, or received by process 0.
PrintSendDone(w) ==
    /\ pc[w] = "print_wait"
    /\ eager \/ Match(chan[<<w, 0>>], PRINT_TAG) = 0
    /\ prow' = [prow EXCEPT ![w] = prow[w] + 1]
    /\ pc' = [pc EXCEPT ![w] = "print"]
    /\ UNCHANGED <<inVars, step, ret,
                   board, new_board, chan, out, aborted, shmVars>>

\* ------------------------------------------------------------------ shutdown
\* MPI_Finalize is collective: it returns once every process has called it.
InFinalize(v) == pc[v] \in {"finalize", "fin_fail", "done", "failed"}

\* free_array, MPI_Finalize, return EXIT_SUCCESS (lines 156-162).
Finalize(w) ==
    /\ pc[w] = "finalize"
    /\ \A v \in Procs : InFinalize(v)
    /\ pc' = [pc EXCEPT ![w] = "done"]
    /\ UNCHANGED <<inVars, step, ret,
                   board, new_board, chan, prow, out, aborted, shmVars>>

\* MPI_Finalize, exit(EXIT_FAILURE) (lines 113-115).
FinalizeFail(w) ==
    /\ pc[w] = "fin_fail"
    /\ \A v \in Procs : InFinalize(v)
    /\ pc' = [pc EXCEPT ![w] = "failed"]
    /\ UNCHANGED <<inVars, step, ret,
                   board, new_board, chan, prow, out, aborted, shmVars>>

\* After MPI_Abort, or the death of a process, the launcher kills the
\* processes that are still running.
Kill ==
    /\ aborted # "no"
    /\ \E w \in Procs : pc[w] \notin Terminal
    /\ pc' = [w \in Procs |-> IF pc[w] \in Terminal THEN pc[w] ELSE "aborted"]
    /\ UNCHANGED <<inVars, step, ret,
                   board, new_board, chan, prow, out, aborted, shmVars>>

DoParseArgs == \E w \in Procs : ParseArgs(w)
DoRandomBoard == \E w \in Procs : RandomBoard(w)
DoAllreduce == \E w \in Procs : Allreduce(w)
DoBuildNew == \E w \in Procs : BuildNew(w)
DoPost == \E w \in Procs : Post(w)
DoWaitRecvAbove == \E w \in Procs : WaitRecvAbove(w)
DoWaitRecvBelow == \E w \in Procs : WaitRecvBelow(w)
DoWaitSendAbove == \E w \in Procs : WaitSendAbove(w)
DoWaitSendBelow == \E w \in Procs : WaitSendBelow(w)
DoUpdate == \E w \in Procs : Update(w)
DoPrintRow == \E w \in Procs : PrintRow(w)
DoPrintAbort == \E w \in Procs : PrintAbort(w)
DoPrintSend == \E w \in Procs : PrintSend(w)
DoPrintSendDone == \E w \in Procs : PrintSendDone(w)
DoFinalize == \E w \in Procs : Finalize(w)
DoFinalizeFail == \E w \in Procs : FinalizeFail(w)

Next ==
    \/ DoRandomBoard
    \/ DoAllreduce
    \/ DoBuildNew
    \/ DoPost
    \/ DoWaitRecvAbove
    \/ DoWaitRecvBelow
    \/ DoWaitSendAbove
    \/ DoWaitSendBelow
    \/ DoUpdate
    \/ DoPrintRow
    \/ DoPrintAbort
    \/ DoPrintSend
    \/ DoPrintSendDone
    \/ DoFinalize
    \/ DoFinalizeFail
    \/ Kill

Spec == Init /\ [][Next]_vars

\* ------------------------------------------------------------ main (game.c)
\* new_matrix: s x s cells, each holding whatever malloc returned.
new_matrix(s) == [i \in 0 .. s - 1 |-> [j \in 0 .. s - 1 |-> junk]]

\* read_neighbor: the cell at (i, j) after wrapping -1 to s-1 and s to 0.
read_neighbor(m, s, i, j) ==
    LET wi == IF i < 0 THEN s - 1 ELSE IF i = s THEN 0 ELSE i
        wj == IF j < 0 THEN s - 1 ELSE IF j = s THEN 0 ELSE j
    IN  m[wi][wj]

alive_neighbors(from, s, i, j) ==
    read_neighbor(from, s, i - 1, j - 1) + read_neighbor(from, s, i - 1, j) +
    read_neighbor(from, s, i - 1, j + 1) + read_neighbor(from, s, i, j - 1) +
    read_neighbor(from, s, i, j + 1) + read_neighbor(from, s, i + 1, j - 1) +
    read_neighbor(from, s, i + 1, j) + read_neighbor(from, s, i + 1, j + 1)

\* process_generation: every cell of to is written from from.
process_generation(from, to, s) ==
    [i \in 0 .. s - 1 |->
        [j \in 0 .. s - 1 |->
            IF from[i][j] = ALIVE
            THEN (IF alive_neighbors(from, s, i, j) = 2 \/ alive_neighbors(from, s, i, j) = 3
                  THEN ALIVE ELSE DEAD)
            ELSE (IF alive_neighbors(from, s, i, j) = 3 THEN ALIVE ELSE DEAD)]]

\* cells_alive: how many cells equal ALIVE.
cells_alive(m, s) ==
    Cardinality({c \in (0 .. s - 1) \X (0 .. s - 1) : m[c[1]][c[2]] = ALIVE})

\* main up to its loop (lines 45-87): the argument checks, new_matrix and
\* the random fill.
SerialMain ==
    /\ spc = "start"
    /\ IF argc < 3 \/ size = 0 \/ steps = 0
       THEN /\ spc' = "usage"
            /\ UNCHANGED matrix
       ELSE /\ spc' = "loop"
            /\ matrix' = [i \in 0 .. size - 1 |-> [j \in 0 .. size - 1 |-> rnd[i + 1][j + 1]]]
    /\ UNCHANGED <<inVars, pc, step, ret,
                   board, new_board, chan, prow, out, aborted, gen, next_gen, alives, ompVars>>

\* One turn of main's loop up to process_generation (lines 101-106).
SerialProcess ==
    /\ spc = "loop"
    /\ gen < steps
    /\ next_gen' = process_generation(matrix, new_matrix(size), size)
    /\ spc' = "swap"
    /\ UNCHANGED <<inVars, pc, step, ret,
                   board, new_board, chan, prow, out, aborted, gen, matrix, alives, ompVars>>

\* The rest of the turn (lines 109-111): the old matrix is freed, next_gen
\* becomes the matrix.
SerialSwap ==
    /\ spc = "swap"
    /\ matrix' = next_gen
    /\ next_gen' = << >>
    /\ gen' = gen + 1
    /\ spc' = "loop"
    /\ UNCHANGED <<inVars, pc, step, ret,
                   board, new_board, chan, prow, out, aborted, alives, ompVars>>

\* The loop is over (lines 122-139).
SerialExit ==
    /\ spc = "loop"
    /\ gen >= steps
    /\ alives' = cells_alive(matrix, size)
    /\ spc' = "exit"
    /\ UNCHANGED <<inVars, pc, step, ret,
                   board, new_board, chan, prow, out, aborted, gen, matrix, next_gen, ompVars>>

\* --------------------------------------------------------- main (game_omp.c)
MAX_THREADS == 200

\* C's integer division, which truncates towards zero.
CDiv(a, b) ==
    LET q == (IF a < 0 THEN -a ELSE a) \div (IF b < 0 THEN -b ELSE b)
    IN  IF (a < 0) # (b < 0) THEN -q ELSE q

\* game_omp.c's own read_neighbor (lines 259-272).
omp_read_neighbor(m, s, i, j) ==
    LET wi == IF i < 0 THEN s - 1 ELSE IF i = s THEN 0 ELSE i
        wj == IF j < 0 THEN s - 1 ELSE IF j = s THEN 0 ELSE j
    IN  m[wi][wj]

omp_alive_neighbors(from, s, i, j) ==
    omp_read_neighbor(from, s, i - 1, j - 1) + omp_read_neighbor(from, s, i - 1, j) +
    omp_read_neighbor(from, s, i - 1, j + 1) + omp_read_neighbor(from, s, i, j - 1) +
    omp_read_neighbor(from, s, i, j + 1) + omp_read_neighbor(from, s, i + 1, j - 1) +
    omp_read_neighbor(from, s, i + 1, j) + omp_read_neighbor(from, s, i + 1, j + 1)

\* What the loops of process_generation leave in to when they run over the
\* rows start .. end-1 (lines 289-323 and 347-381).
omp_rows(from, to, s, start, end) ==
    [i \in DOMAIN to |->
        [j \in DOMAIN to[i] |->
            IF start <= i /\ i < end
            THEN IF from[i][j] = ALIVE
                 THEN (IF omp_alive_neighbors(from, s, i, j) = 2
                          \/ omp_alive_neighbors(from, s, i, j) = 3
                       THEN ALIVE ELSE DEAD)
                 ELSE (IF omp_alive_neighbors(from, s, i, j) = 3 THEN ALIVE ELSE DEAD)
            ELSE to[i][j]]]

\* The boundaries a thread computes (lines 329-341).
ThreadRows(s, threads) == CDiv(s, threads)

ThreadStart(start, s, threads) == ThreadRows(s, threads) * start

ThreadDif(s, threads) == s - (threads * ThreadRows(s, threads))

ExtraWork(t_number, s, threads) ==
    alert_extra_work = 0 /\ t_number = 0 /\ s % 2 # 0 /\ ThreadDif(s, threads) > 0

ThreadEnd(t_number, s, threads) ==
    ThreadStart(t_number, s, threads) + ThreadRows(s, threads)
        + (IF ExtraWork(t_number, s, threads) THEN ThreadDif(s, threads) ELSE 0)

\* The team of the parallel region: thread_count threads; a count that is
\* not positive is not a team size, and one thread runs.
Team == 0 .. ((IF thread_count >= 1 THEN thread_count ELSE 1) - 1)

\* main up to its loop (lines 63-128): the argument checks, the clamping of
\* thread_count, new_matrix and the random fill.
OmpMain ==
    /\ opc = "start"
    /\ IF argc < 4 \/ size = 0 \/ steps = 0 \/ thread_count = 0
       THEN /\ opc' = "usage"
            /\ UNCHANGED <<matrix, thread_count>>
       ELSE /\ opc' = "loop"
            /\ thread_count' =
                  LET c == IF thread_count > MAX_THREADS THEN MAX_THREADS ELSE thread_count
                  IN  IF c > size THEN size ELSE c
            /\ matrix' = [i \in 0 .. size - 1 |-> [j \in 0 .. size - 1 |-> rnd[i + 1][j + 1]]]
    /\ UNCHANGED <<inVars, pc, step, ret, board, new_board, chan, prow, out, aborted,
                   spc, gen, next_gen, alives, alert_extra_work, tpc, trows>>

\* One turn of main's loop up to the parallel region (lines 151-157).
OmpFork ==
    /\ opc = "loop"
    /\ gen < steps
    /\ next_gen' = new_matrix(size)
    /\ tpc' = [t \in Team |-> "run"]
    /\ trows' = [t \in Team |-> <<0, 0>>]
    /\ opc' = "parallel"
    /\ UNCHANGED <<inVars, pc, step, ret, board, new_board, chan, prow, out, aborted,
                   spc, gen, matrix, alives, thread_count, alert_extra_work>>

\* Thread t of the team runs process_generation (lines 159-169, 275-387).
OmpThread(t) ==
    /\ opc = "parallel"
    /\ tpc[t] = "run"
    /\ LET start == IF thread_count = 1 THEN 0 ELSE ThreadStart(t, size, thread_count)
           end == IF thread_count = 1 THEN size ELSE ThreadEnd(t, size, thread_count)
       IN  /\ next_gen' = omp_rows(matrix, next_gen, size, start, end)
           /\ trows' = [trows EXCEPT ![t] = <<start, end>>]
           /\ alert_extra_work' =
                 IF thread_count # 1 /\ ExtraWork(t, size, thread_count)
                 THEN 1 ELSE alert_extra_work
    /\ tpc' = [tpc EXCEPT ![t] = "done"]
    /\ UNCHANGED <<inVars, pc, step, ret, board, new_board, chan, prow, out, aborted,
                   spc, gen, matrix, alives, opc, thread_count>>

DoOmpThread == \E t \in DOMAIN tpc : OmpThread(t)

\* The end of the parallel region and the rest of the turn (lines 170-175).
OmpJoin ==
    /\ opc = "parallel"
    /\ \A t \in DOMAIN tpc : tpc[t] = "done"
    /\ matrix' = next_gen
    /\ next_gen' = << >>
    /\ gen' = gen + 1
    /\ opc' = "loop"
    /\ UNCHANGED <<inVars, pc, step, ret, board, new_board, chan, prow, out, aborted,
                   spc, alives, thread_count, alert_extra_work, tpc, trows>>

\* The loop is over (lines 191-211).
OmpExit ==
    /\ opc = "loop"
    /\ gen >= steps
    /\ alives' = cells_alive(matrix, size)
    /\ opc' = "exit"
    /\ UNCHANGED <<inVars, pc, step, ret, board, new_board, chan, prow, out, aborted,
                   spc, gen, matrix, next_gen, thread_count, alert_extra_work, tpc, trows>>

\* ------------------------------------------------- the step on every grid
\* One program, run on a PatchSize x PatchSize board with every possible
\* outcome of the random fill: either the distributed program as a single
\* process, or the single-threaded program.
InitRule ==
    /\ argc = 3
    /\ size = PatchSize
    /\ nprocs = 1
    /\ steps \in 0 .. 1
    /\ rnd \in [1 .. PatchSize -> [1 .. PatchSize -> {DEAD, ALIVE}]]
    /\ eager = TRUE
    /\ printing = FALSE
    /\ junk \in Garbage
    /\ step = [w \in Procs |-> 0]
    /\ ret = [w \in Procs |-> -1]
    /\ board = [w \in Procs |-> << >>]
    /\ new_board = [w \in Procs |-> << >>]
    /\ chan = [p \in Procs \X Procs |-> << >>]
    /\ prow = [w \in Procs |-> 1]
    /\ out = << >>
    /\ aborted = "no"
    /\ gen = 0
    /\ matrix = << >>
    /\ next_gen = << >>
    /\ alives = -1
    /\ opc = "idle"
    /\ thread_count = 0
    /\ alert_extra_work = 0
    /\ tpc = << >>
    /\ trows = << >>
    /\ \/ pc = [w \in Procs |-> "start"] /\ spc = "idle"
       \/ pc = [w \in Procs |-> "idle"] /\ spc = "start"

NextRule ==
    \/ DoRandomBoard
    \/ DoAllreduce
    \/ DoBuildNew
    \/ DoPost
    \/ DoUpdate
    \/ DoFinalize
    \/ DoFinalizeFail
    \/ SerialMain
    \/ SerialProcess
    \/ SerialSwap
    \/ SerialExit

SpecRule == InitRule /\ [][NextRule]_vars

\* ------------------------------------------------ the programs' arguments
\* One of the three programs is started with too few or with enough
\* arguments, each numeric argument being what atoi made of it: negative,
\* zero (also for text that is not a number) or positive.
NoMpi == pc = [w \in Procs |-> "idle"]

InitArgs ==
    /\ size \in -1 .. MaxArg
    /\ steps \in -1 .. 1
    /\ nprocs \in 1 .. (IF size >= 2 THEN 2 ELSE 1)
    /\ rnd = StreamGrid(size, 0)
    /\ eager = TRUE
    /\ printing = FALSE
    /\ junk \in Garbage
    /\ step = [w \in Procs |-> 0]
    /\ ret = [w \in Procs |-> -1]
    /\ board = [w \in Procs |-> << >>]
    /\ new_board = [w \in Procs |-> << >>]
    /\ chan = [p \in Procs \X Procs |-> << >>]
    /\ prow = [w \in Procs |-> 1]
    /\ out = << >>
    /\ aborted = "no"
    /\ gen = 0
    /\ matrix = << >>
    /\ next_gen = << >>
    /\ alives = -1
    /\ alert_extra_work = 0
    /\ tpc = << >>
    /\ trows = << >>
    /\ \/ /\ pc = [w \in Procs |-> "args"]
          /\ argc \in {2, 3}
          /\ spc = "idle" /\ opc = "idle" /\ thread_count = 0
       \/ /\ NoMpi /\ nprocs = 1
          /\ argc \in {2, 3}
          /\ spc = "start" /\ opc = "idle" /\ thread_count = 0
       \/ /\ NoMpi /\ nprocs = 1
          /\ argc \in {3, 4}
          /\ spc = "idle" /\ opc = "start" /\ thread_count \in -1 .. MaxArg

NextArgs ==
    \/ DoParseArgs
    \/ DoRandomBoard
    \/ DoAllreduce
    \/ DoBuildNew
    \/ DoPost
    \/ DoWaitRecvAbove
    \/ DoWaitRecvBelow
    \/ DoWaitSendAbove
    \/ DoWaitSendBelow
    \/ DoUpdate
    \/ DoFinalize
    \/ DoFinalizeFail
    \/ Kill
    \/ SerialMain
    \/ SerialProcess
    \/ SerialSwap
    \/ SerialExit
    \/ OmpMain
    \/ OmpFork
    \/ DoOmpThread
    \/ OmpJoin
    \/ OmpExit

SpecArgs == InitArgs /\ [][NextArgs]_vars

\* ------------------------------------------------------------ the glider
\* The distributed program on a board whose random fill came out as a
\* glider: live cells at rows and columns (2,3) (3,4) (4,2) (4,3) (4,4) of
\* the 1-based global grid, four generations.
GliderCells == {<<2, 3>>, <<3, 4>>, <<4, 2>>, <<4, 3>>, <<4, 4>>}

InitGlider ==
    /\ argc = 3
    /\ size \in 5 .. MaxGlider
    /\ nprocs \in 1 .. Min(size, MaxProcs)
    /\ steps = 4
    /\ rnd = [i \in 1 .. size |-> [j \in 1 .. size |->
                IF <<i, j>> \in GliderCells THEN ALIVE ELSE DEAD]]
    /\ eager \in BOOLEAN
    /\ printing = FALSE
    /\ junk \in Garbage
    /\ pc = [w \in Procs |-> "start"]
    /\ step = [w \in Procs |-> 0]
    /\ ret = [w \in Procs |-> -1]
    /\ board = [w \in Procs |-> << >>]
    /\ new_board = [w \in Procs |-> << >>]
    /\ chan = [p \in Procs \X Procs |-> << >>]
    /\ prow = [w \in Procs |-> 1]
    /\ out = << >>
    /\ aborted = "no"
    /\ spc = "idle"
    /\ gen = 0
    /\ matrix = << >>
    /\ next_gen = << >>
    /\ alives = -1
    /\ opc = "idle"
    /\ thread_count = 0
    /\ alert_extra_work = 0
    /\ tpc = << >>
    /\ trows = << >>

NextCompute ==
    \/ DoRandomBoard
    \/ DoAllreduce
    \/ DoBuildNew
    \/ DoPost
    \/ DoWaitRecvAbove
    \/ DoWaitRecvBelow
    \/ DoWaitSendAbove
    \/ DoWaitSendBelow
    \/ DoUpdate
    \/ DoFinalize
    \/ DoFinalizeFail
    \/ Kill

SpecGlider == InitGlider /\ [][NextCompute]_vars

\* --------------------------------------------------------- the empty grid
\* The distributed or the single-threaded program on a board whose random
\* fill came out all dead.
InitEmpty ==
    /\ argc = 3
    /\ size \in 1 .. MaxSize
    /\ steps \in 0 .. MaxSteps
    /\ rnd = [i \in 1 .. size |-> [j \in 1 .. size |-> DEAD]]
    /\ printing = FALSE
    /\ junk \in Garbage
    /\ \/ /\ nprocs \in 1 .. Min(size, MaxProcs)
          /\ eager \in BOOLEAN
          /\ pc = [w \in Procs |-> "start"]
          /\ spc = "idle"
       \/ /\ nprocs = 1
          /\ eager = TRUE
          /\ NoMpi
          /\ spc = "start"
    /\ step = [w \in Procs |-> 0]
    /\ ret = [w \in Procs |-> -1]
    /\ board = [w \in Procs |-> << >>]
    /\ new_board = [w \in Procs |-> << >>]
    /\ chan = [p \in Procs \X Procs |-> << >>]
    /\ prow = [w \in Procs |-> 1]
    /\ out = << >>
    /\ aborted = "no"
    /\ gen = 0
    /\ matrix = << >>
    /\ next_gen = << >>
    /\ alives = -1
    /\ opc = "idle"
    /\ thread_count = 0
    /\ alert_extra_work = 0
    /\ tpc = << >>
    /\ trows = << >>

NextEmpty ==
    \/ NextCompute
    \/ SerialMain
    \/ SerialProcess
    \/ SerialSwap
    \/ SerialExit

SpecEmpty == InitEmpty /\ [][NextEmpty]_vars

\* ----------------------------------------------------- the OpenMP program
InitOmp ==
    /\ argc = 4
    /\ size \in 1 .. MaxSize
    /\ nprocs = 1
    /\ steps \in 1 .. MaxSteps
    /\ \E s \in 0 .. (NumSeeds - 1) : rnd = StreamGrid(size, s)
    /\ eager = TRUE
    /\ printing = FALSE
    /\ junk \in Garbage
    /\ NoMpi
    /\ step = [w \in Procs |-> 0]
    /\ ret = [w \in Procs |-> -1]
    /\ board = [w \in Procs |-> << >>]
    /\ new_board = [w \in Procs |-> << >>]
    /\ chan = [p \in Procs \X Procs |-> << >>]
    /\ prow = [w \in Procs |-> 1]
    /\ out = << >>
    /\ aborted = "no"
    /\ spc = "idle"
    /\ gen = 0
    /\ matrix = << >>
    /\ next_gen = << >>
    /\ alives = -1
    /\ opc = "start"
    /\ thread_count \in 1 .. MaxThreads
    /\ alert_extra_work = 0
    /\ tpc = << >>
    /\ trows = << >>

NextOmp ==
    \/ OmpMain
    \/ OmpFork
    \/ DoOmpThread
    \/ OmpJoin
    \/ OmpExit

SpecOmp == InitOmp /\ [][NextOmp]_vars

\* ------------------------------------- the three programs, side by side
InitEdge ==
    /\ size \in 1 .. MaxSize
    /\ steps \in 1 .. MaxSteps
    /\ \E s \in 0 .. (NumSeeds - 1) : rnd = StreamGrid(size, s)
    /\ printing = FALSE
    /\ junk \in Garbage
    /\ \/ /\ argc = 3
          /\ nprocs \in 1 .. Min(size, MaxProcs)
          /\ eager \in BOOLEAN
          /\ pc = [w \in Procs |-> "start"]
          /\ spc = "idle"
          /\ opc = "idle"
          /\ thread_count = 0
       \/ /\ argc = 3
          /\ nprocs = 1
          /\ eager = TRUE
          /\ NoMpi
          /\ spc = "start"
          /\ opc = "idle"
          /\ thread_count = 0
       \/ /\ argc = 4
          /\ nprocs = 1
          /\ eager = TRUE
          /\ NoMpi
          /\ spc = "idle"
          /\ opc = "start"
          /\ thread_count \in 1 .. MaxThreads
    /\ step = [w \in Procs |-> 0]
    /\ ret = [w \in Procs |-> -1]
    /\ board = [w \in Procs |-> << >>]
    /\ new_board = [w \in Procs |-> << >>]
    /\ chan = [p \in Procs \X Procs |-> << >>]
    /\ prow = [w \in Procs |-> 1]
    /\ out = << >>
    /\ aborted = "no"
    /\ gen = 0
    /\ matrix = << >>
    /\ next_gen = << >>
    /\ alives = -1
    /\ alert_extra_work = 0
    /\ tpc = << >>
    /\ trows = << >>

NextEdge ==
    \/ NextCompute
    \/ SerialMain
    \/ SerialProcess
    \/ SerialSwap
    \/ SerialExit
    \/ NextOmp

SpecEdge == InitEdge /\ [][NextEdge]_vars

\* ------------------------------------------------------------------ claims
\* The run has gone wrong for a reason outside the exchange: a malloc failed.
AllocFailed == (\E v \in Procs : ret[v] = 2) \/ aborted \in {"new_board", "temprow"}

\* No step is possible.
Quiescent == ~ENABLED Next

\* Process w has left main's loop with all its generations computed.
LeftLoop(w) == step[w] = steps /\ pc[w] \in {"print", "print_wait", "finalize", "done"}

\* The rows of the half-open range [local_start_row, local_end_row) of r.
RangeOf(r) == {i \in 1 .. (size + MaxSize) :
                 local_start_row(r, size) <= i /\ i < local_end_row(r, size)}

\* C4: for P <= S the ranges [local_start_row(r), local_end_row(r)) are
\* pairwise disjoint, cover exactly the rows 1..S, never reach a row above S
\* and never have their start above their end.
C4_PartitionCoverage ==
    (\E w \in Procs : pc[w] # "start") =>
        /\ \A i \in 1 .. size : Cardinality({r \in Procs : i \in RangeOf(r)}) = 1
        /\ \A r \in Procs :
              /\ local_start_row(r, size) <= local_end_row(r, size)
              /\ local_end_row(r, size) <= size + 1

\* C5: process_owning_row(i, S) is a process id o in 0..P-1, and o's range
\* contains row i: local_start_row(o) <= i < local_end_row(o).
C5_OwnerContainsRow ==
    \A i \in 1 .. size :
        LET o == process_owning_row(i, size)
        IN  /\ o \in Procs
            /\ local_start_row(o, size) <= i
            /\ i < local_end_row(o, size)

\* C5's case: process 0 has gathered a row owned by the last of at least
\* three processes, on a board whose size the process count does not divide.
C5_Witness ==
    /\ nprocs >= 3
    /\ size % nprocs # 0
    /\ pc[0] = "print"
    /\ Len(out) >= 1
    /\ process_owning_row(Len(out), size) = nprocs - 1

\* Every process was given at least zero rows.
WellFormed == \A r \in Procs : local_rows(r, size) >= 0

ZeroRow == [j \in 1 .. size |-> 0]

\* The grid process v held at the start of its generation g: its board while
\* it is in generation g, the swapped-out buffer once it has computed g.
GenGrid(v, g) == IF step[v] = g THEN board[v] ELSE new_board[v]

\* What the halo rows of w must hold when it starts the local step of
\* generation g; a neighbour without interior rows has no cell to offer.
ExpectedAbove(w, g) ==
    IF w = 0 THEN ZeroRow
    ELSE RowData(GenGrid(w - 1, g), local_rows(w - 1, size))

ExpectedBelow(w, g) ==
    IF w = nprocs - 1 THEN ZeroRow
    ELSE IF local_rows(w + 1, size) >= 1 THEN RowData(GenGrid(w + 1, g), 1)
    ELSE ZeroRow

HaloFresh(w) ==
    LET g == step[w]
    IN  /\ w # 0 => step[w - 1] \in {g, g + 1}
        /\ w # nprocs - 1 => step[w + 1] \in {g, g + 1}
        /\ RowData(board[w], 0) = ExpectedAbove(w, g)
        /\ RowData(board[w], local_rows(w, size) + 1) = ExpectedBelow(w, g)

\* C1: when process w has passed the waits of update_board and is about to
\* run the local step of generation g, row 0 of its board equals the last
\* interior row process w-1 held at the start of generation g (all zero for
\* w = 0) and its last row equals the first interior row process w+1 held at
\* the start of generation g (all zero for w = P-1).
C1_HaloFresh == \A w \in Procs : pc[w] = "update" => HaloFresh(w)

\* The same on the partitions that give no process a negative row count.
HaloFreshWellFormed == WellFormed => C1_HaloFresh

\* C2: without a failed allocation, a run of main never comes to rest before
\* every process has computed all its generations and returned from main.
C2_NoDeadlock ==
    (~printing /\ ~AllocFailed /\ Quiescent) =>
        \A w \in Procs : pc[w] = "done" /\ step[w] = steps

NoDeadlockWellFormed == WellFormed => C2_NoDeadlock

\* The interior rows of process w, and of all processes from w on, in order.
InteriorRows(w) == [k \in 1 .. local_rows(w, size) |-> RowData(board[w], k)]

RECURSIVE ConcatFrom(_)
ConcatFrom(w) == IF w >= nprocs THEN << >> ELSE InteriorRows(w) \o ConcatFrom(w + 1)

\* The run of a single process (P = 1) on the same stream: its board after
\* random_board, its new_board after clear_border, and g turns of main's loop.
SingleStart ==
    clear_border([r \in 0 .. size + 1 |-> [c \in 0 .. size + 1 |->
                    IF 1 <= r /\ r <= size /\ 1 <= c /\ c <= size
                    THEN rnd[r][c] ELSE junk]],
                 size + 2, size + 2)

SingleNew == clear_border(build_array(size + 2, size + 2), size + 2, size + 2)

RECURSIVE SingleRun(_, _, _)
SingleRun(b, nb, g) ==
    IF g = 0 THEN b
    ELSE SingleRun(UpdateLoop(b, nb, size + 2, size + 2), b, g - 1)

SingleInterior ==
    [k \in 1 .. size |-> RowData(SingleRun(SingleStart, SingleNew, steps), k)]

\* C3: after G generations the interior rows of the four processes, put one
\* after the other in process order, are the interior of the board a single
\* process computes from the same initial grid.
C3_Equivalence ==
    (nprocs = 4 /\ \A w \in Procs : LeftLoop(w)) => ConcatFrom(0) = SingleInterior

\* The same for every process count, on well-formed partitions.
EquivalenceWellFormed ==
    (WellFormed /\ \A w \in Procs : LeftLoop(w)) => ConcatFrom(0) = SingleInterior

\* The rule of the game: a cell is alive in the next generation exactly when
\* it has three live neighbours, or two and is alive itself.
Lives(alive, count) == count = 3 \/ (count = 2 /\ alive)

Around == {d \in (-1 .. 1) \X (-1 .. 1) : d # <<0, 0>>}

\* The live cells among the eight around (i, j) of a bordered local array.
LiveAround(b, i, j) ==
    Cardinality({d \in Around : b[i + d[1]][j + d[2]] = ALIVE})

\* The same on the torus of side s.
LiveTorus(m, s, i, j) ==
    Cardinality({d \in Around : m[(i + d[1] + s) % s][(j + d[2] + s) % s] = ALIVE})

Adjacent(w) == {v \in Procs : v = w - 1 \/ v = w + 1}

GatherSent(p) ==
    IF pc[p] \in {"print", "print_wait", "finalize", "done"}
    THEN (prow[p] - 1) + (IF pc[p] = "print_wait" THEN 1 ELSE 0)
    ELSE 0

GatherInFlight(p) == Cardinality({k \in 1 .. Len(chan[<<p, 0>>]) : chan[<<p, 0>>][k].tag = PRINT_TAG})

RowsFrom(p, n) == Cardinality({i \in 1 .. n : process_owning_row(i, size) = p})

\* C8: the i-th line process 0 has written is local row
\* i - local_start_row(o) + 1 of the board of o = process_owning_row(i, S);
\* process 0 has received from each other process exactly one message per
\* line it wrote for that process, and none for its own rows.
C8_GatherInOrder ==
    /\ Len(out) <= size
    /\ \A i \in 1 .. Len(out) :
          LET o == process_owning_row(i, size)
          IN  out[i] = Render(RowData(board[o], i - local_start_row(o, size) + 1))
    /\ aborted = "no" =>
          /\ chan[<<0, 0>>] = << >>
          /\ \A p \in Procs \ {0} :
                GatherSent(p) - GatherInFlight(p) = RowsFrom(p, Len(out))

\* C8's case: after at least one generation process 0 has written all S
\* lines, gathered from at least three processes, and they are not all alike.
C8_Witness ==
    /\ nprocs >= 3
    /\ steps >= 1
    /\ aborted = "no"
    /\ Len(out) = size
    /\ pc[0] \in {"finalize", "done"}
    /\ \E i \in 1 .. size : \E k \in 1 .. size :
          process_owning_row(i, size) # 0 /\ out[i] # out[k]

\* C9: a run that gathers and comes to rest without an abort has every
\* process returned from main, each process p # 0 has sent local_rows(p)
\* rows and process 0 has received as many, and no gather message is left.
C9_MatchedTraffic ==
    (printing /\ aborted = "no" /\ ~AllocFailed /\ Quiescent) =>
        /\ \A w \in Procs : pc[w] = "done"
        /\ \A p \in Procs \ {0} :
              /\ local_rows(p, size) = RowsFrom(p, size)
              /\ GatherInFlight(p) = 0

MatchedTrafficWellFormed == WellFormed => C9_MatchedTraffic

\* The allocation of a grid buffer has failed on some process.
GridAllocFailed == (\E v \in Procs : ret[v] = 2) \/ aborted = "new_board"

RunsMpi == \E w \in Procs : pc[w] # "idle"
RunsGame == spc # "idle"
RunsOmp == opc # "idle"

AtRest == ~ENABLED NextArgs

\* C11: in each of the three programs a missing argument, or a size, a
\* generation count or a thread count that is zero or negative, ends the
\* run with failure and without any grid allocated; with valid arguments,
\* and memory for the grids, the run ends with success.
C11_ArgumentErrors ==
    /\ RunsMpi =>
          IF argc < 3 \/ size <= 0 \/ steps <= 0
          THEN /\ \A w \in Procs : board[w] = << >> /\ new_board[w] = << >> /\ pc[w] # "done"
               /\ AtRest => \A w \in Procs : pc[w] = "failed"
          ELSE (AtRest /\ ~AllocFailed /\ aborted = "no") => \A w \in Procs : pc[w] = "done"
    /\ RunsGame =>
          IF argc < 3 \/ size <= 0 \/ steps <= 0
          THEN /\ matrix = << >> /\ next_gen = << >> /\ spc # "exit"
               /\ AtRest => spc = "usage"
          ELSE AtRest => spc = "exit"
    /\ RunsOmp =>
          IF argc < 4 \/ size <= 0 \/ steps <= 0 \/ thread_count <= 0
          THEN /\ matrix = << >> /\ next_gen = << >> /\ opc # "exit"
               /\ AtRest => opc = "usage"
          ELSE AtRest => opc = "exit"

\* What the programs do check: game.c and game_omp.c turn down a missing
\* argument and an argument that atoi makes 0; game_mpi.c a missing argument.
ArgumentErrorsAsChecked ==
    /\ RunsMpi =>
          IF argc < 3
          THEN /\ \A w \in Procs : board[w] = << >> /\ new_board[w] = << >> /\ pc[w] # "done"
               /\ AtRest => \A w \in Procs : pc[w] = "failed"
          ELSE (AtRest /\ ~AllocFailed /\ aborted = "no") => \A w \in Procs : pc[w] = "done"
    /\ RunsGame =>
          IF argc < 3 \/ size = 0 \/ steps = 0
          THEN /\ matrix = << >> /\ next_gen = << >> /\ spc # "exit"
               /\ AtRest => spc = "usage"
          ELSE AtRest => spc = "exit"
    /\ RunsOmp =>
          IF argc < 4 \/ size = 0 \/ steps = 0 \/ thread_count = 0
          THEN /\ matrix = << >> /\ next_gen = << >> /\ opc # "exit"
               /\ AtRest => opc = "usage"
          ELSE AtRest => opc = "exit"

\* The live cells of the global grid, read from the boards of the processes
\* that own the rows.
GlobalCell(i, j) ==
    LET o == process_owning_row(i, size)
    IN  board[o][i - local_start_row(o, size) + 1][j]

LiveCells == {c \in (1 .. size) \X (1 .. size) : GlobalCell(c[1], c[2]) = ALIVE}

ComputeAtRest == ~ENABLED NextCompute

\* C12: started from the glider, the distributed program with any process
\* count P <= S completes its four generations, and the live cells are then
\* exactly the glider moved by one row and one column.
C12_Glider ==
    /\ (~AllocFailed /\ ComputeAtRest) => \A w \in Procs : pc[w] = "done"
    /\ (\A w \in Procs : LeftLoop(w)) =>
          LiveCells = {<<c[1] + 1, c[2] + 1>> : c \in GliderCells}

GliderWellFormed == WellFormed => C12_Glider

\* No cell of matrix m is anything but dead.
AllDead(m) == \A i \in DOMAIN m : \A j \in DOMAIN m[i] : m[i][j] = DEAD

\* C13: started from the all-dead grid, every cell of the S x S grid is dead
\* at every generation, in the distributed program for every P <= S and in
\* the single-threaded program, whose cells_alive then counts 0.
C13_EmptyStable ==
    /\ \A i \in 1 .. size : \A j \in 1 .. size :
          LET o == process_owning_row(i, size)
          IN  (o \in Procs /\ board[o] # << >>) => GlobalCell(i, j) = DEAD
    /\ AllDead(matrix)
    /\ AllDead(next_gen) \/ spc # "swap"
    /\ spc = "exit" => alives = 0

EmptyStableWellFormed == WellFormed => C13_EmptyStable

\* ceil(S/P), computed from the remainder.
CeilDiv(a, b) == IF a % b = 0 THEN a \div b ELSE (a \div b) + 1

\* C14: for every process r other than the last, the rows the code gives r,
\* local_start_row(r) .. local_end_row(r)-1, are
\* r*ceil(S/P)+1 .. min((r+1)*ceil(S/P), S), so none is above S; the last
\* process has the rows from its start up to S.
C14_RangeFormula ==
    (\E w \in Procs : pc[w] # "start") =>
        /\ \A r \in Procs \ {nprocs - 1} :
              /\ local_start_row(r, size) = r * CeilDiv(size, nprocs) + 1
              /\ local_end_row(r, size) - 1 = Min((r + 1) * CeilDiv(size, nprocs), size)
        /\ local_end_row(nprocs - 1, size) - 1 = size
        /\ local_rows(nprocs - 1, size) =
              local_end_row(nprocs - 1, size) - local_start_row(nprocs - 1, size)

RangeFormulaWellFormed == WellFormed => C14_RangeFormula

\* The last message of queue q is an exchange message carrying row r of b.
SentRow(q, b, r) ==
    /\ Len(q) >= 1
    /\ q[Len(q)].tag = EXCHANGE_TAG
    /\ r \in DOMAIN b
    /\ r >= 1
    /\ q[Len(q)].data = RowData(b, r)

\* One step of process w keeps to the cycle: the generation counter moves
\* only by one, from the end of an exchange, with the buffers swapped; the
\* exchange is posted once per generation, and what it sends up and down are
\* row 1 and row local_rows of the board the last local step wrote; the run
\* is done only after steps generations.
CycleStep(w) ==
    /\ step'[w] # step[w] =>
          /\ step'[w] = step[w] + 1
          /\ pc[w] = "update"
          /\ Posted(w) = step[w] + 1
          /\ new_board'[w] = board[w]
    /\ (pc[w] = "post" /\ pc'[w] \in InExchange) =>
          /\ step[w] < steps
          /\ Posted(w)' = Posted(w) + 1
          /\ w # 0 =>
                /\ Len(chan'[<<w, w - 1>>]) = Len(chan[<<w, w - 1>>]) + 1
                /\ SentRow(chan'[<<w, w - 1>>], board[w], 1)
          /\ w # nprocs - 1 =>
                /\ Len(chan'[<<w, w + 1>>]) = Len(chan[<<w, w + 1>>]) + 1
                /\ SentRow(chan'[<<w, w + 1>>], board[w], local_rows(w, size))
    /\ (pc[w] # "post" \/ pc'[w] \notin InExchange) =>
          \A v \in Procs : Len(chan'[<<w, v>>]) <= Len(chan[<<w, v>>])
                              \/ pc[w] \in {"print", "print_wait"}
    /\ pc'[w] = "done" => step'[w] = steps

\* C15: every process performs exactly G cycles, each with one exchange
\* completed before the local step and the buffer swap after it, and sends
\* in each exchange the first and last interior rows its own last local step
\* wrote.
C15_CycleOrder == [][\A w \in Procs : CycleStep(w)]_vars

\* The same on the partitions that give no process a negative row count.
CycleOrderWellFormed == [][WellFormed => \A w \in Procs : CycleStep(w)]_vars

\* The local step of process w as a step of the model: board is the source
\* before it and the destination after it (main swaps the pointers).
LocalStep(w) == pc[w] = "update" /\ step'[w] = step[w] + 1

Interior(w) == (1 .. local_rows(w, size)) \X (1 .. size)

FrameStep(w) ==
    LocalStep(w) =>
        /\ new_board'[w] = board[w]
        /\ DOMAIN board'[w] = DOMAIN new_board[w]
        /\ \A r \in DOMAIN new_board[w] :
              /\ DOMAIN board'[w][r] = DOMAIN new_board[w][r]
              /\ \A c \in DOMAIN new_board[w][r] :
                    IF <<r, c>> \in Interior(w)
                    THEN board'[w][r][c] = NextCell(board[w][r][c], Nbrs(board[w], r, c))
                    ELSE board'[w][r][c] = new_board[w][r][c]

\* C16: the update loop leaves the source buffer as it was, leaves row 0,
\* the last row, column 0 and column S+1 of the destination as they were, and
\* gives every interior cell of the destination a value that is a function
\* of the source alone.
C16_StepFrame == [][\A w \in Procs : FrameStep(w)]_vars

\* C16's case: a process has run its second local step into a destination
\* whose halo row held a live cell received in the first exchange, and the
\* live cell is still there.
C16_Witness ==
    \E w \in Procs :
        /\ step[w] = 2
        /\ pc[w] \in {"finalize", "print", "done"}
        /\ board[w] # new_board[w]
        /\ \E j \in 1 .. size : board[w][0][j] = ALIVE

\* Buffer b of process w has its zero border: columns 0 and S+1 in every
\* row, row 0 on process 0, the last row on process P-1.
ZeroBorder(w, b) ==
    b # << >> =>
        /\ \A r \in DOMAIN b : b[r][0] = 0 /\ b[r][size + 1] = 0
        /\ w = 0 => \A c \in DOMAIN b[0] : b[0][c] = 0
        /\ w = nprocs - 1 =>
              \A c \in DOMAIN b[0] : b[local_rows(w, size) + 1][c] = 0

\* C17: in every state, on every process and in both buffers, column 0 and
\* column S+1 are 0 in every row, row 0 of process 0 is all 0 and the last
\* row of process P-1 is all 0.
C17_ZeroBorder ==
    \A w \in Procs :
        /\ ZeroBorder(w, board[w])
        /\ ZeroBorder(w, new_board[w])
        /\ board[w] # << >> => DOMAIN board[w] = 0 .. (local_rows(w, size) + 1)

ZeroBorderWellFormed == WellFormed => C17_ZeroBorder

\* The rows thread t has run its loop over in the current generation.
RowsOf(t) == {i \in 0 .. size - 1 : trows[t][1] <= i /\ i < trows[t][2]}

Finished == {t \in DOMAIN tpc : tpc[t] = "done"}

DisjointRanges ==
    opc = "parallel" =>
        \A t \in Finished : \A u \in Finished \ {t} : RowsOf(t) \cap RowsOf(u) = {}

\* C18: in every generation the row ranges of the threads that have run are
\* pairwise disjoint, and no step of the parallel region changes the source
\* matrix.
C18_DisjointWrites ==
    [][/\ DisjointRanges'
       /\ (opc = "parallel" /\ opc' = "parallel") => matrix' = matrix]_vars

\* The same when thread 0 takes no extra rows: the size is even, or the
\* thread count divides it, or the first generation is over.
DisjointWithoutExtra ==
    [][/\ (size % 2 = 0 \/ size % thread_count = 0 \/ gen >= 1) => DisjointRanges'
       /\ (opc = "parallel" /\ opc' = "parallel") => matrix' = matrix]_vars

\* C19: when all threads of a generation have run, every row 0..s-1 was
\* computed by exactly one thread, the leftover rows all by the same thread,
\* and every cell of next_gen holds what the rule gives for it.
C19_FullCoverage ==
    (opc = "parallel" /\ Finished = DOMAIN tpc) =>
        /\ \A i \in 0 .. size - 1 : Cardinality({t \in DOMAIN tpc : i \in RowsOf(t)}) = 1
        /\ \E t \in DOMAIN tpc :
              \A i \in 0 .. size - 1 :
                  i >= thread_count * (size \div thread_count) => i \in RowsOf(t)
        /\ \A i \in 0 .. size - 1 : \A j \in 0 .. size - 1 :
              /\ next_gen[i][j] \in {ALIVE, DEAD}
              /\ (next_gen[i][j] = ALIVE) <=>
                     Lives(matrix[i][j] = ALIVE, LiveTorus(matrix, size, i, j))

\* The same when the thread count divides the size.
FullCoverageEvenSplit == size % thread_count = 0 => C19_FullCoverage

\* A matrix whose cell (i, j) holds its own position, so that a read tells
\* where it was made.
IndexMatrix(s) == [i \in 0 .. s - 1 |-> [j \in 0 .. s - 1 |-> i * s + j]]

TorusIndex(s, i, j) == ((i + s) % s) * s + ((j + s) % s)

\* What the rule gives for cell (i, j) when its eight neighbours are taken
\* on the torus of side s.
TorusSum(m, s, i, j) ==
    m[(i - 1 + s) % s][(j - 1 + s) % s] + m[(i - 1 + s) % s][j] +
    m[(i - 1 + s) % s][(j + 1) % s]     + m[i][(j - 1 + s) % s] +
    m[i][(j + 1) % s]                   + m[(i + 1) % s][(j - 1 + s) % s] +
    m[(i + 1) % s][j]                   + m[(i + 1) % s][(j + 1) % s]

TorusRule(m, s, i, j) ==
    LET n == TorusSum(m, s, i, j)
    IN  IF m[i][j] = ALIVE
        THEN IF n = 2 \/ n = 3 THEN ALIVE ELSE DEAD
        ELSE IF n = 3 THEN ALIVE ELSE DEAD

\* game.c and game_omp.c: every neighbour read goes to the wrapped position,
\* and the cells a generation has computed are the rule over the wrapped
\* neighbours.
TorusReads ==
    /\ (spc = "swap" \/ opc = "parallel") =>
          \A i \in 0 .. size - 1 : \A j \in 0 .. size - 1 : \A d \in Around :
              /\ read_neighbor(IndexMatrix(size), size, i + d[1], j + d[2])
                     = TorusIndex(size, i + d[1], j + d[2])
              /\ omp_read_neighbor(IndexMatrix(size), size, i + d[1], j + d[2])
                     = TorusIndex(size, i + d[1], j + d[2])
    /\ spc = "swap" =>
          \A i \in 0 .. size - 1 : \A j \in 0 .. size - 1 :
              next_gen[i][j] = TorusRule(matrix, size, i, j)
    /\ opc = "parallel" =>
          \A t \in Finished : \A i \in RowsOf(t) : \A j \in 0 .. size - 1 :
              next_gen[i][j] = TorusRule(matrix, size, i, j)

\* game_mpi.c: when process w is about to run update_board, every cell it
\* will read around a cell of the global grid, at a position outside the
\* global grid, holds 0.
OutsideZero(w) ==
    pc[w] = "update" =>
        \A r \in 1 .. local_rows(w, size) : \A c \in 1 .. size : \A d \in Around :
            LET g == local_start_row(w, size) + r - 1
            IN  (/\ g \in 1 .. size
                 /\ \/ g + d[1] \notin 1 .. size
                    \/ c + d[2] \notin 1 .. size)
                => board[w][r + d[1]][c + d[2]] = 0

\* C20: game.c and game_omp.c read every neighbour at the position wrapped
\* around on both axes, for every size; in game_mpi.c a neighbour position
\* outside the global grid always contributes 0 to the count.
C20_EdgePolicy == TorusReads /\ \A w \in Procs : OutsideZero(w)

\* The same when every process has a non-negative number of rows.
EdgePolicyWellFormed == TorusReads /\ (WellFormed => \A w \in Procs : OutsideZero(w))

\* Process w has returned from random_board with its board allocated.
Distributed(w) == pc[w] = "allreduce" /\ ret[w] = 0

\* The board of w has local_rows + 2 rows, and every interior cell holds the
\* cell of the shared initial grid its row and column name.
Assigned(w) ==
    /\ DOMAIN board[w] = 0 .. local_rows(w, size) + 1
    /\ \A k \in 1 .. local_rows(w, size) : \A j \in 1 .. size :
          LET g == local_start_row(w, size) + k - 1
          IN  /\ g \in 1 .. size
              /\ board[w][k][j] = rnd[g][j]

\* C21: after random_board every process has at least one row, a board of
\* local_rows + 2 rows, and every interior cell assigned from the global cell
\* of the shared initial grid at its row and column.
C21_InitialDistribution ==
    \A w \in Procs : Distributed(w) => (local_rows(w, size) >= 1 /\ Assigned(w))

\* The same without the lower bound on local_rows, when every process has a
\* non-negative number of rows.
InitialDistributionWellFormed ==
    WellFormed => \A w \in Procs : Distributed(w) => Assigned(w)

\* The exchange messages process v has sent to process w that w has not
\* received yet.
Outstanding(v, w) ==
    Cardinality({k \in 1 .. Len(chan[<<v, w>>]) : chan[<<v, w>>][k].tag = EXCHANGE_TAG})

Distance(v, w) == IF v >= w THEN v - w ELSE w - v

InGrid(w, k) == local_start_row(w, size) + k - 1 \in 1 .. size

\* Interior row k of the board of w has been written: by random_board, or by
\* update_board once a generation is over.  The other buffer is the board of
\* the generation before.
BoardWritten(w, k) == step[w] >= 1 \/ InGrid(w, k)

NewBoardWritten(w, k) == step[w] >= 2 \/ (step[w] = 1 /\ InGrid(w, k))

CellsInRange ==
    \A w \in Procs : \A k \in 1 .. local_rows(w, size) : \A j \in 1 .. size :
        /\ (DOMAIN board[w] # {} /\ BoardWritten(w, k)) => board[w][k][j] \in {0, 1}
        /\ (DOMAIN new_board[w] # {} /\ NewBoardWritten(w, k))
               => new_board[w][k][j] \in {0, 1}

PayloadsInRange ==
    \A p \in Procs \X Procs : \A k \in 1 .. Len(chan[p]) :
        /\ chan[p][k].tag \in {EXCHANGE_TAG, PRINT_TAG}
        /\ DOMAIN chan[p][k].data = 1 .. size
        /\ \A j \in 1 .. size : chan[p][k].data[j] \in {0, 1}

\* C23: every interior cell of both buffers of every process that has been
\* written holds 0 or 1, and the payload of every exchange or gather message
\* is exactly S values, each 0 or 1.
C23_CellRange == CellsInRange /\ PayloadsInRange

\* The same when every process has a non-negative number of rows.
CellRangeWellFormed == CellsInRange /\ (WellFormed => PayloadsInRange)

\* The tags of the messages a step takes out of the channel p.
TakenTags(p) ==
    {chan[p][k].tag : k \in {n \in 1 .. Len(chan[p]) : chan'[p] = Remove(chan[p], n)}}

\* A step in which the receiver of channel p completes a receive.
Receives(p) == Len(chan'[p]) = Len(chan[p]) - 1

TagStep(p) ==
    Receives(p) =>
        /\ TakenTags(p) # {}
        /\ pc[p[2]] \in {"wait_ra", "wait_rb", "print"}
        /\ pc[p[2]] \in {"wait_ra", "wait_rb"} => TakenTags(p) = {EXCHANGE_TAG}
        /\ pc[p[2]] = "print" => TakenTags(p) = {PRINT_TAG}

=============================================================================
